---- MODULE Spec2Model ----
(***************************************************************************)
(* http-api-problem (src/src/lib.rs): the HttpStatusCode registry (title,  *)
(* to_u16, From<u16>) and the HttpApiProblem value type with its three     *)
(* constructors, five consuming setters, the From<HttpStatusCode>          *)
(* conversion and the derived serde Serialize / Deserialize.               *)
(*                                                                         *)
(* Encoding of the Rust values:                                            *)
(*   Option<T>        None is <<>>, Some(v) is <<v>>                        *)
(*   HttpStatusCode   a unit variant V is <<"V">>, Unregistered(n) is      *)
(*                    <<"Unregistered", n>>                                 *)
(*   T: Into<HttpStatusCode>   a raw u16 n is <<"u16", n>>, a status code  *)
(*                    is the status code itself                            *)
(*   HttpApiProblem   a record with the struct's five fields               *)
(*   String           a TLA+ string                                        *)
(***************************************************************************)
EXTENDS Integers, Sequences, FiniteSets, TLC

VARIABLES pc, arg, code, number, ttl, back, p, before, last, wire, parsed, lhs, rhs, nums

vars == <<pc, arg, code, number, ttl, back, p, before, last, wire, parsed, lhs, rhs, nums>>

(***************************************************************************)
(* Bounds of the model and constants of the program.                       *)
(***************************************************************************)
\* The largest u16: the payload type of Unregistered and the argument of From<u16>.
U16Max == 65535

\* How many distinct text arguments the builder chain draws from.
MaxText == 2

\* How many entries of StatusSamples the builder chain draws its statuses from.
NumStatus == 3

\* The equality check compares all status codes whose number is at most EqMax.
EqMax == 600

U16 == 0 .. U16Max

None == <<>>

Some(v) == <<v>>

(***************************************************************************)
(* enum HttpStatusCode                                                     *)
(***************************************************************************)

\* The sixty unit variants of the enum, in declaration order.
NamedVariants ==
    { "Continue", "SwitchingProtocols", "Processing",
      "Ok", "Created", "Accepted",
      "NonAuthoritativeInformation", "NoContent", "ResetContent",
      "PartialContent", "MultiStatus", "AlreadyReported",
      "ImUsed", "MultipleChoices", "MovedPermanently",
      "Found", "SeeOther", "NotModified",
      "UseProxy", "TemporaryRedirect", "PermanentRedirect",
      "BadRequest", "Unauthorized", "PaymentRequired",
      "Forbidden", "NotFound", "MethodNotAllowed",
      "NotAcceptable", "ProxyAuthenticationRequired", "RequestTimeout",
      "Conflict", "Gone", "LengthRequired",
      "PreconditionFailed", "PayloadTooLarge", "UriTooLong",
      "UnsupportedMediaType", "RangeNotSatisfiable", "ExpectationFailed",
      "ImATeapot", "MisdirectedRequest", "UnprocessableEntity",
      "Locked", "FailedDependency", "UpgradeRequired",
      "PreconditionRequired", "TooManyRequests", "RequestHeaderFieldsTooLarge",
      "UnavailableForLegalReasons", "InternalServerError", "NotImplemented",
      "BadGateway", "ServiceUnavailable", "GatewayTimeout",
      "HttpVersionNotSupported", "VariantAlsoNegotiates", "InsufficientStorage",
      "LoopDetected", "NotExtended", "NetworkAuthenticationRequired" }

Unregistered(n) == <<"Unregistered", n>>

\* The arms of title() for the unit variants.
TitleArms ==
    [ Continue |-> "Continue",
      SwitchingProtocols |-> "Switching Protocols",
      Processing |-> "Processing",
      Ok |-> "Ok",
      Created |-> "Created",
      Accepted |-> "Accepted",
      NonAuthoritativeInformation |-> "Non Authoritative Information",
      NoContent |-> "No Content",
      ResetContent |-> "Reset Content",
      PartialContent |-> "Partial Content",
      MultiStatus |-> "Multi Status",
      AlreadyReported |-> "Already Reported",
      ImUsed |-> "Im Used",
      MultipleChoices |-> "Multiple Choices",
      MovedPermanently |-> "Moved Permanently",
      Found |-> "Found",
      SeeOther |-> "See Other",
      NotModified |-> "Not Modified",
      UseProxy |-> "Use Proxy",
      TemporaryRedirect |-> "Temporary Redirect",
      PermanentRedirect |-> "Permanent Redirect",
      BadRequest |-> "Bad Request",
      Unauthorized |-> "Unauthorized",
      PaymentRequired |-> "Payment Required",
      Forbidden |-> "Forbidden",
      NotFound |-> "Not Found",
      MethodNotAllowed |-> "Method Not Allowed",
      NotAcceptable |-> "Not Acceptable",
      ProxyAuthenticationRequired |-> "Proxy Authentication Required",
      RequestTimeout |-> "Request Timeout",
      Conflict |-> "Conflict",
      Gone |-> "Gone",
      LengthRequired |-> "Length Required",
      PreconditionFailed |-> "Precondition Failed",
      PayloadTooLarge |-> "Payload Too Large",
      UriTooLong |-> "Uri Too Long",
      UnsupportedMediaType |-> "Unsupported Media Type",
      RangeNotSatisfiable |-> "Range Not Satisfiable",
      ExpectationFailed |-> "Expectation Failed",
      ImATeapot |-> "Im A Teapot",
      MisdirectedRequest |-> "Misdirected Request",
      UnprocessableEntity |-> "Unprocessable Entity",
      Locked |-> "Locked",
      FailedDependency |-> "Failed Dependency",
      UpgradeRequired |-> "Upgrade Required",
      PreconditionRequired |-> "Precondition Required",
      TooManyRequests |-> "Too Many Requests",
      RequestHeaderFieldsTooLarge |-> "Request Header Fields Too Large",
      UnavailableForLegalReasons |-> "Unavailable For Legal Reasons",
      InternalServerError |-> "Internal Server Error",
      NotImplemented |-> "Not Implemented",
      BadGateway |-> "Bad Gateway",
      ServiceUnavailable |-> "Service Unavailable",
      GatewayTimeout |-> "Gateway Timeout",
      HttpVersionNotSupported |-> "HTTP Version Not Supported",
      VariantAlsoNegotiates |-> "Variant Also Negotiates",
      InsufficientStorage |-> "Insufficient Storage",
      LoopDetected |-> "Loop Detected",
      NotExtended |-> "Not Extended",
      NetworkAuthenticationRequired |-> "Network Authentication Required" ]

\* unregistered_title with the two error classes exchanged.
unregistered_title_swapped(c) ==
    IF c \div 100 = 5 THEN "<Unregistered Client Error>"
    ELSE IF c \div 100 = 4 THEN "<Unregistered Server Error>"
    ELSE "<Unregistered Status Code>"

\* The Unregistered(code) arm of title(): the placeholder by code / 100.
unregistered_title(c) ==
    IF c \div 100 = 4 THEN "<Unregistered Client Error>"
    ELSE IF c \div 100 = 5 THEN "<Unregistered Server Error>"
    ELSE "<Unregistered Status Code>"

title(self) ==
    IF self[1] = "Unregistered" THEN unregistered_title(self[2])
    ELSE TitleArms[self[1]]

\* The arms of to_u16() for the unit variants.
ToU16Arms ==
    [ Continue |-> 100, SwitchingProtocols |-> 101, Processing |-> 102,
      Ok |-> 200, Created |-> 201, Accepted |-> 202,
      NonAuthoritativeInformation |-> 203, NoContent |-> 204, ResetContent |-> 205,
      PartialContent |-> 206, MultiStatus |-> 207, AlreadyReported |-> 208,
      ImUsed |-> 226, MultipleChoices |-> 300, MovedPermanently |-> 301,
      Found |-> 302, SeeOther |-> 303, NotModified |-> 304,
      UseProxy |-> 305, TemporaryRedirect |-> 307, PermanentRedirect |-> 308,
      BadRequest |-> 400, Unauthorized |-> 401, PaymentRequired |-> 402,
      Forbidden |-> 403, NotFound |-> 404, MethodNotAllowed |-> 405,
      NotAcceptable |-> 406, ProxyAuthenticationRequired |-> 407, RequestTimeout |-> 408,
      Conflict |-> 409, Gone |-> 410, LengthRequired |-> 411,
      PreconditionFailed |-> 412, PayloadTooLarge |-> 413, UriTooLong |-> 414,
      UnsupportedMediaType |-> 415, RangeNotSatisfiable |-> 416, ExpectationFailed |-> 417,
      ImATeapot |-> 418, MisdirectedRequest |-> 421, UnprocessableEntity |-> 422,
      Locked |-> 423, FailedDependency |-> 424, UpgradeRequired |-> 426,
      PreconditionRequired |-> 428, TooManyRequests |-> 429, RequestHeaderFieldsTooLarge |-> 431,
      UnavailableForLegalReasons |-> 451, InternalServerError |-> 500, NotImplemented |-> 501,
      BadGateway |-> 502, ServiceUnavailable |-> 503, GatewayTimeout |-> 504,
      HttpVersionNotSupported |-> 505, VariantAlsoNegotiates |-> 506, InsufficientStorage |-> 507,
      LoopDetected |-> 508, NotExtended |-> 510, NetworkAuthenticationRequired |-> 511 ]

\* to_u16 with the ImATeapot arm carrying its neighbour's number.
to_u16_collides(self) ==
    IF self[1] = "Unregistered" THEN self[2]
    ELSE [ToU16Arms EXCEPT !.ImATeapot = 417][self[1]]

to_u16(self) ==
    IF self[1] = "Unregistered" THEN self[2]
    ELSE ToU16Arms[self[1]]

\* The numeric arms of From<u16>, first arm first (@@ keeps the leftmost).
FromArms ==
    (100 :> "Continue") @@ (101 :> "SwitchingProtocols") @@
    (102 :> "Processing") @@ (200 :> "Ok") @@
    (201 :> "Created") @@ (202 :> "Accepted") @@
    (203 :> "NonAuthoritativeInformation") @@ (204 :> "NoContent") @@
    (205 :> "ResetContent") @@ (206 :> "PartialContent") @@
    (207 :> "MultiStatus") @@ (208 :> "AlreadyReported") @@
    (226 :> "ImUsed") @@ (300 :> "MultipleChoices") @@
    (301 :> "MovedPermanently") @@ (302 :> "Found") @@
    (303 :> "SeeOther") @@ (304 :> "NotModified") @@
    (305 :> "UseProxy") @@ (307 :> "TemporaryRedirect") @@
    (308 :> "PermanentRedirect") @@ (400 :> "BadRequest") @@
    (401 :> "Unauthorized") @@ (402 :> "PaymentRequired") @@
    (403 :> "Forbidden") @@ (404 :> "NotFound") @@
    (405 :> "MethodNotAllowed") @@ (406 :> "NotAcceptable") @@
    (407 :> "ProxyAuthenticationRequired") @@ (408 :> "RequestTimeout") @@
    (409 :> "Conflict") @@ (410 :> "Gone") @@
    (411 :> "LengthRequired") @@ (412 :> "PreconditionFailed") @@
    (413 :> "PayloadTooLarge") @@ (414 :> "UriTooLong") @@
    (415 :> "UnsupportedMediaType") @@ (416 :> "RangeNotSatisfiable") @@
    (417 :> "ExpectationFailed") @@ (418 :> "ImATeapot") @@
    (421 :> "MisdirectedRequest") @@ (422 :> "UnprocessableEntity") @@
    (423 :> "Locked") @@ (424 :> "FailedDependency") @@
    (426 :> "UpgradeRequired") @@ (428 :> "PreconditionRequired") @@
    (429 :> "TooManyRequests") @@ (431 :> "RequestHeaderFieldsTooLarge") @@
    (451 :> "UnavailableForLegalReasons") @@ (500 :> "InternalServerError") @@
    (501 :> "NotImplemented") @@ (502 :> "BadGateway") @@
    (503 :> "ServiceUnavailable") @@ (504 :> "GatewayTimeout") @@
    (505 :> "HttpVersionNotSupported") @@ (506 :> "VariantAlsoNegotiates") @@
    (507 :> "InsufficientStorage") @@ (508 :> "LoopDetected") @@
    (510 :> "NotExtended") @@ (511 :> "NetworkAuthenticationRequired")

\* from with the 418 arm naming the variant of the arm after it.
from_u16_wrong_arm(n) ==
    IF n = 418 THEN <<"MisdirectedRequest">>
    ELSE IF n \in DOMAIN FromArms THEN <<FromArms[n]>>
    ELSE Unregistered(n)

\* impl From<u16> for HttpStatusCode: the matching arm, or the catch-all.
from_u16(n) ==
    IF n \in DOMAIN FromArms THEN <<FromArms[n]>>
    ELSE Unregistered(n)

\* status.into() for T: Into<HttpStatusCode>: From<u16> for a raw integer, the
\* reflexive conversion for a status code.
Into(status) ==
    IF status[1] = "u16" THEN from_u16(status[2])
    ELSE status

(***************************************************************************)
(* format!("{}", n) for a u16: the decimal digits, most significant first, *)
(* no leading zeros.                                                       *)
(***************************************************************************)
Digits == <<"0", "1", "2", "3", "4", "5", "6", "7", "8", "9">>

RECURSIVE Decimal(_)
Decimal(n) ==
    IF n < 10 THEN Digits[n + 1]
    ELSE Decimal(n \div 10) \o Digits[(n % 10) + 1]

(***************************************************************************)
(* struct HttpApiProblem: constructors and setters.                        *)
(***************************************************************************)
\* new that drops its argument and leaves the title empty.
new_empty_title(t) ==
    [ type_url |-> None,
      status   |-> None,
      title    |-> "",
      detail   |-> None,
      instance |-> None ]

new(t) ==
    [ type_url |-> None,
      status   |-> None,
      title    |-> t,
      detail   |-> None,
      instance |-> None ]

\* with_title_and_type_from_status building the type from the title.
with_title_and_type_from_status_by_title(status) ==
    LET s == Into(status)
    IN  [ type_url |-> Some("https://httpstatuses.com/" \o title(s)),
          status   |-> Some(to_u16(s)),
          title    |-> title(s),
          detail   |-> None,
          instance |-> None ]

with_title_and_type_from_status(status) ==
    LET s == Into(status)
    IN  [ type_url |-> Some("https://httpstatuses.com/" \o Decimal(to_u16(s))),
          status   |-> Some(to_u16(s)),
          title    |-> title(s),
          detail   |-> None,
          instance |-> None ]

\* with_title_from_status leaving the status empty.
with_title_from_status_no_status(status) ==
    LET s == Into(status)
    IN  [ type_url |-> None,
          status   |-> None,
          title    |-> title(s),
          detail   |-> None,
          instance |-> None ]

with_title_from_status(status) ==
    LET s == Into(status)
    IN  [ type_url |-> None,
          status   |-> Some(to_u16(s)),
          title    |-> title(s),
          detail   |-> None,
          instance |-> None ]

\* impl From<HttpStatusCode> for HttpApiProblem
from(status) == with_title_from_status(status)

set_type_url(self, type_url) == [self EXCEPT !.type_url = Some(type_url)]

\* set_status that also takes the title of the new status.
set_status_retitles(self, status) ==
    LET s == Into(status)
    IN  [self EXCEPT !.status = Some(to_u16(s)), !.title = title(s)]

set_status(self, status) ==
    LET s == Into(status)
    IN  [self EXCEPT !.status = Some(to_u16(s))]

\* set_title that builds a fresh problem from the title.
set_title_rebuilds(self, t) ==
    [ type_url |-> None,
      status   |-> None,
      title    |-> t,
      detail   |-> None,
      instance |-> None ]

set_title(self, t) == [self EXCEPT !.title = t]

\* set_detail that keeps a detail already present.
set_detail_keeps_first(self, detail) ==
    IF self.detail = None THEN [self EXCEPT !.detail = Some(detail)]
    ELSE self

set_detail(self, detail) == [self EXCEPT !.detail = Some(detail)]

set_instance(self, instance) == [self EXCEPT !.instance = Some(instance)]

(***************************************************************************)
(* #[derive(Serialize, Deserialize)] on HttpApiProblem.  The serialized    *)
(* object is the sequence of its members <<name, value>> in field order; a *)
(* value is <<"string", s>>, <<"number", n>> or <<"null">>.                *)
(***************************************************************************)
\* The member name a field is written under: #[serde(rename = "type")] on type_url.
SerName(field) == IF field = "type_url" THEN "type" ELSE field

\* Reading every field under its own name: the rename applied to writing only.
DeName_not_renamed(field) == field

\* The member name a field is read from: the same rename.
DeName(field) == IF field = "type_url" THEN "type" ELSE field

JString(s) == <<"string", s>>

JNumber(n) == <<"number", n>>

JNull == <<"null">>

\* An Option<String> field written without skip_serializing_if.
SerOptString_writes_null(field, opt) ==
    IF opt = None THEN << <<SerName(field), JNull>> >>
    ELSE << <<SerName(field), JString(opt[1])>> >>

\* An Option<String> field under skip_serializing_if = "Option::is_none".
SerOptString(field, opt) ==
    IF opt = None THEN <<>>
    ELSE << <<SerName(field), JString(opt[1])>> >>

\* The Option<u16> field under skip_serializing_if = "Option::is_none".
SerOptU16(field, opt) ==
    IF opt = None THEN <<>>
    ELSE << <<SerName(field), JNumber(opt[1])>> >>

Serialize(self) ==
    SerOptString("type_url", self.type_url)
      \o SerOptU16("status", self.status)
      \o << <<SerName("title"), JString(self.title)>> >>
      \o SerOptString("detail", self.detail)
      \o SerOptString("instance", self.instance)

\* The members of the object that carry the name a field is read from.
Members(obj, field) == SelectSeq(obj, LAMBDA m : m[1] = DeName(field))

\* Reading an Option<String> field: a missing member or null is None.
DeOptString(obj, field) ==
    LET ms == Members(obj, field)
    IN  IF Len(ms) = 0 THEN <<"Ok", None>>
        ELSE IF Len(ms) > 1 THEN <<"Err", "duplicate field">>
        ELSE IF ms[1][2] = JNull THEN <<"Ok", None>>
        ELSE IF ms[1][2][1] = "string" THEN <<"Ok", Some(ms[1][2][2])>>
        ELSE <<"Err", "invalid type">>

\* Reading the Option<u16> field.
DeOptU16(obj, field) ==
    LET ms == Members(obj, field)
    IN  IF Len(ms) = 0 THEN <<"Ok", None>>
        ELSE IF Len(ms) > 1 THEN <<"Err", "duplicate field">>
        ELSE IF ms[1][2] = JNull THEN <<"Ok", None>>
        ELSE IF ms[1][2][1] = "number" /\ ms[1][2][2] \in U16 THEN <<"Ok", Some(ms[1][2][2])>>
        ELSE <<"Err", "invalid type">>

\* Reading the mandatory String field.
DeString(obj, field) ==
    LET ms == Members(obj, field)
    IN  IF Len(ms) = 0 THEN <<"Err", "missing field">>
        ELSE IF Len(ms) > 1 THEN <<"Err", "duplicate field">>
        ELSE IF ms[1][2][1] = "string" THEN <<"Ok", ms[1][2][2]>>
        ELSE <<"Err", "invalid type">>

\* Result<HttpApiProblem, Error>: <<"Ok", problem>> or <<"Err", message>>.
Deserialize(obj) ==
    LET ty == DeOptString(obj, "type_url")
        st == DeOptU16(obj, "status")
        ti == DeString(obj, "title")
        de == DeOptString(obj, "detail")
        ins == DeOptString(obj, "instance")
        errs == SelectSeq(<<ty, st, ti, de, ins>>, LAMBDA r : r[1] = "Err")
    IN  IF Len(errs) > 0 THEN errs[1]
        ELSE <<"Ok", [ type_url |-> ty[2],
                       status   |-> st[2],
                       title    |-> ti[2],
                       detail   |-> de[2],
                       instance |-> ins[2] ]>>

(***************************************************************************)
(* Inputs.                                                                 *)
(***************************************************************************)
\* The statuses of the builder chain: a registered code, a code outside every
\* class, the documentation's example, unregistered client and server errors,
\* and the ends of the u16 range.
StatusSamples == <<404, 600, 428, 499, 0, 599, 65535, 4000>>

SampleNumbers == {StatusSamples[i] : i \in 1 .. NumStatus}

CodeInputs == {from_u16(n) : n \in SampleNumbers} \cup {Unregistered(n) : n \in SampleNumbers}

StatusInputs == {<<"u16", n>> : n \in SampleNumbers} \cup CodeInputs

\* The text arguments of the builder chain.
Texts == {"text" \o Decimal(i) : i \in 1 .. MaxText}

\* The status codes the equality check compares.
EqCodes == {<<v>> : v \in NamedVariants} \cup {Unregistered(n) : n \in 0 .. EqMax}

(***************************************************************************)
(* State.  pc is the position of the caller; arg, code, number, ttl and    *)
(* back hold a status input and what the registry functions return for it; *)
(* p is the problem being built, before its value ahead of the last        *)
(* operation and last that operation with its argument; wire and parsed    *)
(* hold the serialized object and what deserializing it returns; lhs and   *)
(* rhs are two status codes under comparison and nums their numbers.       *)
(***************************************************************************)
NoCode == <<"none">>

NoProblem == new("")

NoOp == [op |-> "none", arg |-> <<"none">>]

InitRest ==
    /\ pc = "start"
    /\ code = NoCode
    /\ number = 0
    /\ ttl = ""
    /\ back = NoCode
    /\ p = NoProblem
    /\ before = NoProblem
    /\ last = NoOp
    /\ wire = <<>>
    /\ parsed = <<"none">>

\* A builder chain starts with no problem built.
Init ==
    /\ InitRest
    /\ arg = <<"none">>
    /\ lhs = NoCode
    /\ rhs = NoCode
    /\ nums = <<>>

\* The registry is applied to any one argument a T: Into<HttpStatusCode>
\* parameter accepts: a raw u16, a unit variant, or Unregistered of any u16.
InitRegistry ==
    /\ InitRest
    /\ \/ \E n \in U16 : arg = <<"u16", n>>
       \/ \E v \in NamedVariants : arg = <<v>>
       \/ \E n \in U16 : arg = Unregistered(n)
    /\ lhs = NoCode
    /\ rhs = NoCode
    /\ nums = <<>>

\* Two status codes are compared.
InitEq ==
    /\ InitRest
    /\ arg = <<"none">>
    /\ lhs \in EqCodes
    /\ rhs = NoCode
    /\ nums = <<>>

registryVars == <<code, number, ttl, back>>

builderVars == <<p, before, last>>

serdeVars == <<wire, parsed>>

eqVars == <<lhs, rhs, nums>>

(***************************************************************************)
(* Registry steps on the status input arg.                                 *)
(***************************************************************************)
Resolve ==
    /\ pc = "start"
    /\ arg # <<"none">>
    /\ code' = Into(arg)
    /\ pc' = "resolved"
    /\ UNCHANGED <<arg, number, ttl, back, builderVars, serdeVars, eqVars>>

ToU16 ==
    /\ pc = "resolved"
    /\ number' = to_u16(code)
    /\ pc' = "numbered"
    /\ UNCHANGED <<arg, code, ttl, back, builderVars, serdeVars, eqVars>>

Title ==
    /\ pc = "numbered"
    /\ ttl' = title(code)
    /\ pc' = "titled"
    /\ UNCHANGED <<arg, code, number, back, builderVars, serdeVars, eqVars>>

FromU16 ==
    /\ pc = "titled"
    /\ back' = from_u16(number)
    /\ pc' = "done"
    /\ UNCHANGED <<arg, code, number, ttl, builderVars, serdeVars, eqVars>>

(***************************************************************************)
(* Builder steps.                                                          *)
(***************************************************************************)
Construct(op, a, value) ==
    /\ pc = "start"
    /\ p' = value
    /\ before' = p
    /\ last' = [op |-> op, arg |-> a]
    /\ pc' = "built"
    /\ UNCHANGED <<arg, registryVars, serdeVars, eqVars>>

New(t) == Construct("new", <<"str", t>>, new(t))

WithTitleAndTypeFromStatus(status) ==
    Construct("with_title_and_type_from_status", status,
              with_title_and_type_from_status(status))

WithTitleFromStatus(status) ==
    Construct("with_title_from_status", status, with_title_from_status(status))

From(status) ==
    /\ status[1] # "u16"
    /\ Construct("from", status, from(status))

Setter(op, a, value) ==
    /\ pc = "built"
    /\ p' = value
    /\ before' = p
    /\ last' = [op |-> op, arg |-> a]
    /\ UNCHANGED <<pc, arg, registryVars, serdeVars, eqVars>>

SetTypeUrl(u) == Setter("set_type_url", <<"str", u>>, set_type_url(p, u))

SetStatus(status) == Setter("set_status", status, set_status(p, status))

SetTitle(t) == Setter("set_title", <<"str", t>>, set_title(p, t))

SetDetail(d) == Setter("set_detail", <<"str", d>>, set_detail(p, d))

SetInstance(i) == Setter("set_instance", <<"str", i>>, set_instance(p, i))

DoSerialize ==
    /\ pc = "built"
    /\ wire' = Serialize(p)
    /\ pc' = "serialized"
    /\ UNCHANGED <<arg, registryVars, builderVars, parsed, eqVars>>

DoDeserialize ==
    /\ pc = "serialized"
    /\ parsed' = Deserialize(wire)
    /\ pc' = "deserialized"
    /\ UNCHANGED <<arg, registryVars, builderVars, wire, eqVars>>

(***************************************************************************)
(* Comparison step.                                                        *)
(***************************************************************************)
Compare(other) ==
    /\ pc = "start"
    /\ lhs # NoCode
    /\ rhs' = other
    /\ nums' = <<to_u16(lhs), to_u16(other)>>
    /\ pc' = "compared"
    /\ UNCHANGED <<arg, lhs, registryVars, builderVars, serdeVars>>

(***************************************************************************)
(* Specifications.                                                         *)
(***************************************************************************)
Next ==
    \/ \E t \in Texts : New(t)
    \/ \E s \in StatusInputs : WithTitleAndTypeFromStatus(s)
    \/ \E s \in StatusInputs : WithTitleFromStatus(s)
    \/ \E s \in CodeInputs : From(s)
    \/ \E u \in Texts : SetTypeUrl(u)
    \/ \E s \in StatusInputs : SetStatus(s)
    \/ \E t \in Texts : SetTitle(t)
    \/ \E d \in Texts : SetDetail(d)
    \/ \E i \in Texts : SetInstance(i)
    \/ DoSerialize
    \/ DoDeserialize

Spec == Init /\ [][Next]_vars

NextRegistry ==
    \/ Resolve
    \/ ToU16
    \/ Title
    \/ FromU16
    \/ WithTitleAndTypeFromStatus(arg)
    \/ WithTitleFromStatus(arg)
    \/ From(arg)

SpecRegistry == InitRegistry /\ [][NextRegistry]_vars

NextEq == \E other \in EqCodes : Compare(other)

SpecEq == InitEq /\ [][NextEq]_vars

(***************************************************************************)
(* Properties.                                                             *)
(***************************************************************************)
\* The canonical numbers of the unit variants.
CanonicalNumbers == {to_u16(<<v>>) : v \in NamedVariants}

\* The numeric code a status input denotes: the integer itself, or the
\* number of the status code.
NumericCode(s) == IF s[1] = "u16" THEN s[2] ELSE to_u16(s)

\* The registry title of a status input.
RegistryTitle(s) == IF s[1] = "u16" THEN title(from_u16(s[2])) ELSE title(s)

\* The most significant decimal digit of n.
RECURSIVE LeadingDigit(_)
LeadingDigit(n) == IF n < 10 THEN n ELSE LeadingDigit(n \div 10)

\* The decimal numeral of a u16, by its number of digits.
DecimalText(n) ==
    LET d(k) == Digits[((n \div k) % 10) + 1]
    IN  IF n < 10 THEN d(1)
        ELSE IF n < 100 THEN d(10) \o d(1)
        ELSE IF n < 1000 THEN d(100) \o d(10) \o d(1)
        ELSE IF n < 10000 THEN d(1000) \o d(100) \o d(10) \o d(1)
        ELSE d(10000) \o d(1000) \o d(100) \o d(10) \o d(1)

Placeholders ==
    {"<Unregistered Client Error>", "<Unregistered Server Error>", "<Unregistered Status Code>"}

HasMember(obj, name) == \E i \in 1 .. Len(obj) : obj[i][1] = name

\* C1: for every u16 n, to_u16 of the status code From<u16> gives for n is n
\* again, the numbers with no registered meaning included.
C1_NumberRoundTrip ==
    (pc \in {"numbered", "titled", "done"} /\ arg[1] = "u16") =>
        /\ code = from_u16(arg[2])
        /\ number = arg[2]

C1_Witness ==
    /\ pc = "done"
    /\ arg = <<"u16", 600>>
    /\ code = Unregistered(600)
    /\ number = 600

\* C2: for every unit variant v, From<u16> of to_u16(v) is v again, and no
\* other unit variant has the number of v.
C2_VariantRoundTrip ==
    (pc = "done" /\ arg[1] \in NamedVariants) =>
        /\ number = to_u16(arg)
        /\ back = arg
        /\ \A w \in NamedVariants : w # arg[1] => to_u16(<<w>>) # number

C2_Witness ==
    /\ pc = "done"
    /\ arg = <<"ImATeapot">>
    /\ number = 418
    /\ back = <<"ImATeapot">>

\* C3 as stated: for every u16 n that is no unit variant's number, From<u16>
\* gives Unregistered(n) and its title goes by the leading decimal digit of n.
C3_TitleByLeadingDigit ==
    (pc \in {"titled", "done"} /\ arg[1] = "u16" /\ arg[2] \notin CanonicalNumbers) =>
        /\ code = Unregistered(arg[2])
        /\ ttl = IF LeadingDigit(arg[2]) = 4 THEN "<Unregistered Client Error>"
                 ELSE IF LeadingDigit(arg[2]) = 5 THEN "<Unregistered Server Error>"
                 ELSE "<Unregistered Status Code>"

\* C3 as amended: for every u16 n that is no unit variant's number, From<u16>
\* gives Unregistered(n) and its title goes by the class of n: the client
\* error placeholder for 400..499, the server error placeholder for 500..599,
\* the unknown status placeholder for every other n.
C3_TitleByClass ==
    (pc \in {"titled", "done"} /\ arg[1] = "u16" /\ arg[2] \notin CanonicalNumbers) =>
        /\ code = Unregistered(arg[2])
        /\ ttl = IF arg[2] \in 400 .. 499 THEN "<Unregistered Client Error>"
                 ELSE IF arg[2] \in 500 .. 599 THEN "<Unregistered Server Error>"
                 ELSE "<Unregistered Status Code>"

C3_Witness ==
    /\ pc = "titled"
    /\ arg = <<"u16", 499>>
    /\ code = Unregistered(499)
    /\ ttl = "<Unregistered Client Error>"

\* C4: with_title_and_type_from_status(s) has the type "https://httpstatuses.com/"
\* followed by the decimal numeral of the numeric code of s, that code as
\* status, the registry title of s as title, and no detail and no instance;
\* an integer with no unit variant gets one of the placeholder titles.
C4_TitleAndTypeFromStatus ==
    (pc = "built" /\ last.op = "with_title_and_type_from_status") =>
        /\ p.type_url = Some("https://httpstatuses.com/" \o DecimalText(NumericCode(last.arg)))
        /\ p.status = Some(NumericCode(last.arg))
        /\ p.title = RegistryTitle(last.arg)
        /\ p.detail = None
        /\ p.instance = None
        /\ (last.arg[1] = "u16" /\ last.arg[2] \notin CanonicalNumbers) =>
               p.title \in Placeholders

C4_Witness ==
    /\ pc = "built"
    /\ last = [op |-> "with_title_and_type_from_status", arg |-> <<"u16", 428>>]
    /\ p.type_url = Some("https://httpstatuses.com/428")
    /\ p.status = Some(428)
    /\ p.title = "Precondition Required"

\* C5: with_title_from_status(s) has the numeric code of s as status, the
\* registry title of s as title, and no type, detail or instance; From of a
\* status code gives the same problem.
C5_TitleFromStatus ==
    (pc = "built" /\ last.op \in {"with_title_from_status", "from"}) =>
        /\ p.type_url = None
        /\ p.status = Some(NumericCode(last.arg))
        /\ p.title = RegistryTitle(last.arg)
        /\ p.detail = None
        /\ p.instance = None

C5_Witness ==
    /\ pc = "built"
    /\ last = [op |-> "with_title_from_status", arg |-> <<"u16", 404>>]
    /\ p.status = Some(404)
    /\ p.title = "Not Found"
    /\ p.type_url = None

C7_SerdeRoundTrip ==
    pc = "deserialized" =>
        /\ wire = Serialize(p)
        /\ parsed = <<"Ok", p>>

C7_Witness ==
    /\ pc = "deserialized"
    /\ p.type_url # None
    /\ p.status # None
    /\ p.detail = None
    /\ p.instance # None
    /\ parsed = <<"Ok", p>>

\* C8: the serialized object always has the member title, has each of type,
\* status, detail and instance exactly when the field is present, has no null
\* member, and has one member only when only the title is set.
C8_MembersFollowPresence ==
    pc \in {"serialized", "deserialized"} =>
        /\ HasMember(wire, "title")
        /\ HasMember(wire, "type") <=> (p.type_url # None)
        /\ HasMember(wire, "status") <=> (p.status # None)
        /\ HasMember(wire, "detail") <=> (p.detail # None)
        /\ HasMember(wire, "instance") <=> (p.instance # None)
        /\ \A i \in 1 .. Len(wire) :
               /\ wire[i][2] # JNull
               /\ wire[i][1] \in {"type", "status", "title", "detail", "instance"}
               /\ \A j \in 1 .. Len(wire) : wire[j][1] = wire[i][1] => j = i
        /\ (p.type_url = None /\ p.status = None /\ p.detail = None /\ p.instance = None) =>
               Len(wire) = 1

C8_Witness ==
    /\ pc = "serialized"
    /\ p = new("text1")
    /\ wire = << <<"title", <<"string", "text1">>>> >>

\* C9: a setter changes its own field only: after set_type_url, set_status,
\* set_title, set_detail or set_instance the other four fields are those the
\* problem had before the call.
C9_SettersKeepOtherFields ==
    LET same(fields) == \A f \in fields : p[f] = before[f]
    IN  /\ last.op = "set_type_url" =>
               /\ p.type_url = Some(last.arg[2])
               /\ same({"status", "title", "detail", "instance"})
        /\ last.op = "set_status" =>
               /\ p.status = Some(NumericCode(last.arg))
               /\ same({"type_url", "title", "detail", "instance"})
        /\ last.op = "set_title" =>
               /\ p.title = last.arg[2]
               /\ same({"type_url", "status", "detail", "instance"})
        /\ last.op = "set_detail" =>
               /\ p.detail = Some(last.arg[2])
               /\ same({"type_url", "status", "title", "instance"})
        /\ last.op = "set_instance" =>
               /\ p.instance = Some(last.arg[2])
               /\ same({"type_url", "status", "title", "detail"})

C9_Witness ==
    /\ pc = "built"
    /\ last = [op |-> "set_status", arg |-> <<"u16", 404>>]
    /\ before = with_title_and_type_from_status(<<"u16", 428>>)
    /\ p.status = Some(404)
    /\ p.title = "Precondition Required"
    /\ p.type_url = Some("https://httpstatuses.com/428")

\* C10: for every setter and arguments a and b, the setter with a and then
\* with b gives the problem the setter with b alone gives; with a = b the
\* setter is idempotent.
C10_LaterCallOverwrites ==
    pc = "built" =>
        /\ \A a \in Texts, b \in Texts :
               /\ set_type_url(set_type_url(p, a), b) = set_type_url(p, b)
               /\ set_title(set_title(p, a), b) = set_title(p, b)
               /\ set_detail(set_detail(p, a), b) = set_detail(p, b)
               /\ set_instance(set_instance(p, a), b) = set_instance(p, b)
        /\ \A a \in StatusInputs, b \in StatusInputs :
               set_status(set_status(p, a), b) = set_status(p, b)

C10_Witness ==
    /\ pc = "built"
    /\ last = [op |-> "set_detail", arg |-> <<"str", "text2">>]
    /\ before.detail = Some("text1")
    /\ p = set_detail(new("text1"), "text2")

\* The four Option fields of the struct.
OptionalFields == {"type_url", "status", "detail", "instance"}

\* The titles a builder chain can hold: a text argument or a registry title.
ChainTitles == Texts \cup {RegistryTitle(s) : s \in StatusInputs}

\* C11: after a constructor and any sequence of setters the problem is a
\* whole HttpApiProblem with a title, the one its last title-giving call
\* supplied; right after new(t) the title is t and the four optional fields
\* are empty.
C11_TitleAlwaysThere ==
    pc \in {"built", "serialized", "deserialized"} =>
        /\ DOMAIN p = OptionalFields \cup {"title"}
        /\ p.title \in ChainTitles
        /\ \A f \in OptionalFields : Len(p[f]) \in {0, 1}
        /\ last.op = "new" =>
               /\ p.title = last.arg[2]
               /\ \A f \in OptionalFields : p[f] = None
        /\ last.op = "set_title" => p.title = last.arg[2]
        /\ last.op \in {"set_type_url", "set_status", "set_detail", "set_instance"} =>
               p.title = before.title

C11_Witness ==
    /\ pc = "built"
    /\ last.op = "set_instance"
    /\ before = set_detail(new("text1"), "text2")
    /\ p.title = "text1"

\* C12: along a builder chain an optional field that is present stays
\* present in every later step: no operation empties it.
C12_PresentStaysPresent ==
    [][\A f \in OptionalFields : p[f] # None => p'[f] # None]_vars

C12_Witness ==
    /\ pc = "built"
    /\ last.op = "set_title"
    /\ before = set_detail(with_title_and_type_from_status(<<"u16", 404>>), "text1")
    /\ p.type_url # None
    /\ p.status # None
    /\ p.detail # None

====
